---- MODULE Spec2Model ----
(***************************************************************************)
(* Model of codex_subagent.registry.Registry and codex_subagent.paths.Paths *)
(* Three specifications share the state file <root>/state/threads.json:     *)
(*   Spec       one process at a time owns a Registry; system calls fail    *)
(*              and the process is killed at any step.  The file system     *)
(*              (directories, the state file, the temporary file of the     *)
(*              running _persist and stray temporary files) survives a      *)
(*              crash; the in-memory map does not.                          *)
(*   SpecConc   two writers: two processes with a Registry each, or two     *)
(*              threads on one Registry, with and without a caller's mutex. *)
(*   SpecAlias  records as objects with identity: what the caller and the   *)
(*              Registry can reach of each other's dicts and lists.         *)
(***************************************************************************)
EXTENDS Naturals, Sequences, FiniteSets

(* ------------------------------ bounds --------------------------------- *)
\* number of upsert calls in one behaviour
MaxOps == 2
\* number of injected faults (failing system calls and process crashes)
MaxFaults == 2
\* Record objects (dicts) that are made in a run of the object-graph
\* specification, and the length a nested list is grown to.
MaxObjects == 3
MaxNotes == 2

(* --------------------------- python values ----------------------------- *)
\* A field that is not in the dict; dict.get() turns it into None.
MISSING == "<missing>"
\* Values a caller can put in the thread_id field, written as Python literals.
TidValues == {"'a'", "7", "0", "''", "False", MISSING}
\* Values of the one other field the model gives a record.
StatusValues == {"'run'", MISSING}
PyValues == (TidValues \cup StatusValues \cup {"'b'", "None"}) \ {MISSING}

\* A record (thread dict): every field holds a Python value or is MISSING.
Records == [thread_id : TidValues, status : StatusValues]

\* dict.get(field): None when the field is missing.
DictGet(rec, field) == IF rec[field] = MISSING THEN "None" ELSE rec[field]

\* Python truthiness, as tested by "not thread_id".
Truthy(v) == v \notin {"None", "False", "0", "''"}

\* Python str(v).
Str(v) ==
  CASE v = "'a'" -> "a"
    [] v = "'b'" -> "b"
    [] v = "''" -> ""
    [] v = "'run'" -> "run"
    [] OTHER -> v

\* Every key str() can produce from a thread_id, in the order Python sorts
\* strings (by code point: digits, upper case, lower case).
KeyOrder == <<"", "0", "7", "False", "None", "a", "b">>
Keys == {KeyOrder[i] : i \in 1..Len(KeyOrder)}

(* ------------------- the in-memory dict self._threads ------------------- *)
\* A Python dict keeps insertion order: a sequence of items with unique keys.
Item(k, v) == [k |-> k, v |-> v]
EmptyDict == <<>>
DictKeys(d) == {d[i].k : i \in 1..Len(d)}
DictIndex(d, k) == CHOOSE i \in 1..Len(d) : d[i].k = k
DictValue(d, k) == d[DictIndex(d, k)].v
\* (Mutant: d[k].update(v), which keeps the old value of a field v lacks.)
DictSetMerge(d, k, v) ==
  IF k \in DictKeys(d)
  THEN [d EXCEPT ![DictIndex(d, k)] =
          Item(k, [f \in DOMAIN v |->
                     IF v[f] = MISSING THEN DictValue(d, k)[f] ELSE v[f]])]
  ELSE Append(d, Item(k, v))

\* d[k] = v: an existing key keeps its position, a new key goes last.
DictSet(d, k, v) ==
  IF k \in DictKeys(d)
  THEN [d EXCEPT ![DictIndex(d, k)] = Item(k, v)]
  ELSE Append(d, Item(k, v))

(* ------------------------------ JSON text ------------------------------ *)
\* json encodes a Python value as a JSON literal, and decodes it back.
\* (Mutant: the value is written with str() instead of being JSON-encoded.)
JsonEncodeStr(v) == Str(v)
JsonEncode(v) ==
  CASE v = "'a'" -> "\"a\""
    [] v = "'b'" -> "\"b\""
    [] v = "''" -> "\"\""
    [] v = "'run'" -> "\"run\""
    [] v = "False" -> "false"
    [] v = "None" -> "null"
    [] OTHER -> v
JsonDecode(j) ==
  CASE j = "\"a\"" -> "'a'"
    [] j = "\"b\"" -> "'b'"
    [] j = "\"\"" -> "''"
    [] j = "\"run\"" -> "'run'"
    [] j = "false" -> "False"
    [] j = "null" -> "None"
    [] OTHER -> j
EncodeRecord(rec) == [f \in DOMAIN rec |-> JsonEncode(rec[f])]
DecodeRecord(obj) == [f \in DOMAIN obj |-> JsonDecode(obj[f])]

\* The text of a file is a sequence of tokens.  A token is a brace, one
\* "key": {object} member of the top-level object, or one of the other
\* things a state file was found to hold.
NoObj == [thread_id |-> MISSING, status |-> MISSING]
Tok(t) == [t |-> t, k |-> "", v |-> NoObj]
LB == Tok("{")
RB == Tok("}")
LSQ == Tok("[")
RSQ == Tok("]")
WS == Tok(" ")
NUM == Tok("5")
NULL == Tok("null")
JUNK == Tok("not-json")
BADBYTE == Tok("\\xff")
Member(k, obj) == [t |-> "kv", k |-> k, v |-> obj]

\* (Mutant: json.dump without sort_keys=True, the members come in the
\* dict's own order.)
MembersAsInserted(d, i) ==
  [j \in 1..Len(d) |-> Member(d[j].k, EncodeRecord(d[j].v))]

\* json.dump(self._threads, handle, indent=2, sort_keys=True)
RECURSIVE SortedMembers(_, _)
SortedMembers(d, i) ==
  IF i > Len(KeyOrder) THEN <<>>
  ELSE (IF KeyOrder[i] \in DictKeys(d)
        THEN <<Member(KeyOrder[i], EncodeRecord(DictValue(d, KeyOrder[i])))>>
        ELSE <<>>) \o SortedMembers(d, i + 1)

\* (Mutant: _persist dumps the entry stored last, not the whole dict.)
JsonDumpNewest(d) ==
  IF d = EmptyDict THEN <<LB, RB>>
  ELSE <<LB, Member(d[Len(d)].k, EncodeRecord(d[Len(d)].v)), RB>>

JsonDump(d) == <<LB>> \o SortedMembers(d, 1) \o <<RB>>

\* str.strip()
\* (Mutant: the text is parsed as read, without strip().)
StripNothing(s) == s
RECURSIVE LStrip(_)
LStrip(s) == IF s # <<>> /\ Head(s) = WS THEN LStrip(Tail(s)) ELSE s
RECURSIVE RStrip(_)
RStrip(s) ==
  IF s # <<>> /\ s[Len(s)] = WS THEN RStrip(SubSeq(s, 1, Len(s) - 1)) ELSE s
Strip(s) == RStrip(LStrip(s))

\* json.loads(raw): a dict, another JSON value, or JSONDecodeError.
IsObjectText(s) ==
  /\ Len(s) >= 2
  /\ s[1] = LB
  /\ s[Len(s)] = RB
  /\ \A i \in 2..(Len(s) - 1) : s[i].t = "kv"
RECURSIVE ObjectItems(_, _, _)
ObjectItems(s, i, d) ==
  IF i >= Len(s) THEN d
  ELSE ObjectItems(s, i + 1, DictSet(d, s[i].k, DecodeRecord(s[i].v)))
JsonLoads(s) ==
  IF IsObjectText(s) THEN [kind |-> "dict", dict |-> ObjectItems(s, 2, EmptyDict)]
  ELSE IF s \in {<<LSQ, RSQ>>, <<NUM>>, <<NULL>>}
       THEN [kind |-> "other", dict |-> EmptyDict]
       ELSE [kind |-> "JSONDecodeError", dict |-> EmptyDict]

(* ------------------------------ the files ------------------------------ *)
NoFile == [exists |-> FALSE, data |-> <<>>]
FileOf(text) == [exists |-> TRUE, data |-> text]


\* What the state file can hold when a process starts: nothing, zero bytes,
\* blanks, broken or undecodable text, JSON that is not an object, and JSON
\* objects (one of them hand-edited so that a key and its record disagree).
ObjA == [thread_id |-> "\"a\"", status |-> "\"run\""]
ObjB == [thread_id |-> "\"b\"", status |-> MISSING]
InitTexts ==
  { <<>>, <<WS>>, <<LB, JUNK>>, <<BADBYTE>>, <<LSQ, RSQ>>, <<NUM>>, <<NULL>>,
    <<LB, RB>>, <<LB, Member("a", ObjA), RB>>,
    <<WS, LB, Member("a", ObjA), Member("b", ObjB), RB, WS>>,
    <<LB, Member("a", ObjB), RB>>,
    <<LB, Member("a", ObjA)>> }

\* Paths as sequences of components.  Paths.state_file is
\* root/"state"/"threads.json"; _persist asks mkstemp for a file in
\* state_file.parent, named ".threads.json.<random>.tmp".
Parent(path) == SubSeq(path, 1, Len(path) - 1)
state_file == <<"root", "state", "threads.json">>
tmp_path == Parent(state_file) \o <<".threads.json.*.tmp">>

\* Directories: parents exist before children.
AllDirs == {"root", "state", "logs"}
InitDirs == {{}, {"root"}, {"root", "state"}, {"root", "logs"}, AllDirs}

\* The state file a Registry wrote where Paths.ensure never ran: _persist
\* makes root and root/state only, so the file is there and logs is not.
UnensuredText == <<LB, Member("a", ObjA), RB>>

\* Two users of the state file: two processes, or two threads of one.
Actors == {1, 2}

(* ------------------------------- state --------------------------------- *)
VARIABLES
  dirs,       \* the directories that exist
  file,       \* <root>/state/threads.json
  tmp,        \* the temporary file made by the current or last _persist
  tmpSynced,  \* os.fsync was done on tmp after its last write
  strays,     \* number of temporary files left behind by earlier calls
  pc,         \* "none": no Registry object; "idle": between calls; else the
              \* step of _persist the running upsert is about to take
  threads,    \* self._threads
  arg,        \* the record given to the current or last upsert
  exc,        \* the step whose exception is propagating ("none" if none)
  swallowed,  \* the steps whose OSError the current or last upsert ignored
  result,     \* the last call and how it ended
  ret,        \* what the last get or list_threads returned
  pre,        \* the state when the current or last call began
  lastUp,     \* per key, the record of the last upsert this process stored
  nops,       \* upsert calls so far
  faults,     \* injected faults so far
  \* two writers on one state file (actors 1 and 2)
  cmode,      \* "off"; "processes": a Registry each; "threads": one Registry
              \* shared; "locked": shared, the callers hold a mutex
  cmem,       \* per Registry object, its self._threads
  cpc,        \* per actor, where it is
  csnap,      \* per actor, the items json.dump took from self._threads
  cname,      \* per actor, the name mkstemp gave it (0: none)
  cpos,       \* per actor, how many pieces of its text it has written
  ctmps,      \* per name, the temporary file of that name
  cres,       \* per actor, how its last upsert ended
  cwriter,    \* the actor whose rename came last (0: nobody has renamed)
  cwritten,   \* self._threads of that actor's Registry when it renamed
  \* the object graph (records as objects with identity)
  heap,       \* the objects made so far; an object's address is its index
  hthreads,   \* self._threads, its values the addresses of the records
  held,       \* the addresses of the record objects the caller has
  hexp        \* per object, where it came from and the value it had when
              \* made or when the caller last changed it through it

\* What the single-writer specification, and what the two-writer one, adds
\* to the state file and the two counters.
svars == <<dirs, tmp, tmpSynced, strays, pc, threads, arg, exc, swallowed,
           result, ret, pre, lastUp>>
cvars == <<cmode, cmem, cpc, csnap, cname, cpos, ctmps, cres, cwriter,
           cwritten>>
hvars == <<heap, hthreads, held, hexp>>
aux == <<cvars, hvars>>
vars == <<dirs, file, tmp, tmpSynced, strays, pc, threads, arg, exc,
          swallowed, result, ret, pre, lastUp, nops, faults, cvars, hvars>>

TmpCount == strays + (IF tmp.exists THEN 1 ELSE 0)
Snapshot(next) ==
  [file |-> file, threads |-> threads, next |-> next, dirs |-> dirs,
   tmps |-> TmpCount]
Result(op, out) == [op |-> op, out |-> out, io |-> "-"]

\* No second writer.
ConcOff ==
  /\ cmode = "off"
  /\ cmem = [r \in Actors |-> EmptyDict]
  /\ cpc = [a \in Actors |-> "none"]
  /\ csnap = [a \in Actors |-> EmptyDict]
  /\ cname = [a \in Actors |-> 0]
  /\ cpos = [a \in Actors |-> 0]
  /\ ctmps = [n \in Actors |-> NoFile]
  /\ cres = [a \in Actors |-> "none"]
  /\ cwriter = 0
  /\ cwritten = EmptyDict

\* No object graph.
AliasOff ==
  /\ heap = <<>>
  /\ hthreads = EmptyDict
  /\ held = {}
  /\ hexp = <<>>

Init ==
  /\ ConcOff
  /\ AliasOff
  /\ dirs \in InitDirs
  /\ file \in {NoFile} \cup
       (IF dirs = AllDirs THEN {FileOf(t) : t \in InitTexts}
        ELSE IF dirs = {"root", "state"} THEN {FileOf(UnensuredText)}
        ELSE {})
  /\ tmp = NoFile
  /\ tmpSynced = FALSE
  /\ strays = 0
  /\ pc = "none"
  /\ threads = EmptyDict
  /\ arg = NoObj
  /\ exc = "none"
  /\ swallowed = {}
  /\ result = Result("none", "-")
  /\ ret = <<>>
  /\ pre = Snapshot(EmptyDict)
  /\ lastUp = EmptyDict
  /\ nops = 0
  /\ faults = 0

(* ------------------------------ Paths.ensure --------------------------- *)
\* The three mkdir(parents=True, exist_ok=True) calls, the first n of them
\* done (a failing mkdir propagates and the later ones are not reached).
\* The caller resolves its paths before it constructs a Registry.
\* (Mutant: ensure without its third mkdir, the one of logs_dir.)
EnsureDirsNoLogs(d, n) ==
  d \cup (IF n >= 1 THEN {"root"} ELSE {})
    \cup (IF n >= 2 THEN {"state"} ELSE {})

EnsureDirs(d, n) ==
  d \cup (IF n >= 1 THEN {"root"} ELSE {})
    \cup (IF n >= 2 THEN {"state"} ELSE {})
    \cup (IF n >= 3 THEN {"logs"} ELSE {})

Ensure ==
  /\ pc = "none"
  /\ result.op \in {"none", "ensure"}
  /\ \E n \in 0..3 :
       /\ n < 3 => faults < MaxFaults /\ EnsureDirs(dirs, n + 1) # dirs
       /\ dirs' = EnsureDirs(dirs, n)
       /\ faults' = IF n < 3 THEN faults + 1 ELSE faults
       /\ result' = Result("ensure", IF n < 3 THEN "OSError" ELSE "ok")
  /\ pre' = Snapshot(threads)
  /\ UNCHANGED aux
  /\ UNCHANGED <<file, tmp, tmpSynced, strays, pc, threads, arg, exc,
                 swallowed, ret, lastUp, nops>>

(* --------------------------- Registry._load ---------------------------- *)
\* {str(key): value for key, value in data.items()}: the keys json.loads
\* returns are str objects already, which str() returns unchanged.
LoadItems(d) == d

\* (Mutant: _load without the isinstance(data, dict) fallback, so that a
\* top-level value of another shape is refused like broken text.)
LoadStrictShape(f, io) ==
  IF io = "StatError"
    THEN [out |-> "PermissionError", dict |-> EmptyDict]
  ELSE IF ~f.exists \/ io = "FileNotFoundError"
    THEN [out |-> "ok", dict |-> EmptyDict]
  ELSE IF io = "OSError"
    THEN [out |-> "RegistryLoadError", dict |-> EmptyDict]
  ELSE IF \E i \in 1..Len(f.data) : f.data[i] = BADBYTE
    THEN [out |-> "RegistryLoadError", dict |-> EmptyDict]
  ELSE IF Strip(f.data) = <<>>
    THEN [out |-> "ok", dict |-> EmptyDict]
  ELSE IF JsonLoads(Strip(f.data)).kind # "dict"
    THEN [out |-> "RegistryLoadError", dict |-> EmptyDict]
  ELSE [out |-> "ok", dict |-> JsonLoads(Strip(f.data)).dict]

\* _load on file f, where the file system does what io says:
\*   "ok"                 exists(), open() and read() answer;
\*   "StatError"          the stat() of self.state_file.exists() fails with
\*                        EACCES (the directory cannot be searched): exists()
\*                        raises PermissionError, outside the try statement;
\*   "OSError"            open() raises an OSError (permission, I/O error);
\*   "FileNotFoundError"  the file went away after the exists() test.
Load(f, io) ==
  IF io = "StatError"
    THEN [out |-> "PermissionError", dict |-> EmptyDict]
  ELSE IF ~f.exists \/ io = "FileNotFoundError"
    THEN [out |-> "ok", dict |-> EmptyDict]
  ELSE IF io = "OSError"
    THEN [out |-> "RegistryLoadError", dict |-> EmptyDict]
  ELSE IF \E i \in 1..Len(f.data) : f.data[i] = BADBYTE
    THEN [out |-> "RegistryLoadError", dict |-> EmptyDict]
  ELSE IF Strip(f.data) = <<>>
    THEN [out |-> "ok", dict |-> EmptyDict]
  ELSE IF JsonLoads(Strip(f.data)).kind = "JSONDecodeError"
    THEN [out |-> "RegistryLoadError", dict |-> EmptyDict]
  ELSE IF JsonLoads(Strip(f.data)).kind # "dict"
    THEN [out |-> "ok", dict |-> EmptyDict]
  ELSE [out |-> "ok", dict |-> LoadItems(JsonLoads(Strip(f.data)).dict)]

\* Registry(state_file): __init__ runs _load; when _load raises there is no
\* Registry object.  Nothing of an earlier process's calls is left but the
\* files: its temporary file, if any, is counted with the strays.
Construct ==
  /\ pc = "none"
  /\ \E io \in {"ok", "StatError", "OSError", "FileNotFoundError"} :
       /\ io # "ok" => file.exists /\ faults < MaxFaults
       /\ faults' = IF io # "ok" THEN faults + 1 ELSE faults
       /\ file' = IF io = "FileNotFoundError" THEN NoFile ELSE file
       /\ threads' = Load(file', io).dict
       /\ result' = [op |-> "construct", out |-> Load(file', io).out,
                     io |-> IF file.exists THEN io ELSE "absent"]
       /\ pc' = IF Load(file', io).out = "ok" THEN "idle" ELSE "none"
       /\ pre' = Snapshot(threads')
  /\ lastUp' = EmptyDict
  /\ ret' = <<>>
  /\ arg' = NoObj
  /\ exc' = "none"
  /\ swallowed' = {}
  /\ strays' = TmpCount
  /\ tmp' = NoFile
  /\ tmpSynced' = FALSE
  /\ UNCHANGED aux
  /\ UNCHANGED <<dirs, nops>>

(* ---------------------- Registry.get, list_threads --------------------- *)
\* (Mutant: get looks thread_id up as given, without str().)
GetUncoerced(d, id) ==
  IF id \in DictKeys(d) THEN <<DictValue(d, id)>> ELSE <<>>

\* get(thread_id): <<>> stands for None, <<r>> for the copy of record r.
Get(d, id) ==
  IF Str(id) \in DictKeys(d) THEN <<DictValue(d, Str(id))>> ELSE <<>>

\* list_threads(): copies of the values, in the dict's order.
ListThreads(d) == [i \in 1..Len(d) |-> d[i].v]

\* The ids the model asks get() for: str keys, and an int that str() coerces.
GetIds == {"'a'", "'b'", "7"}

GetCall ==
  /\ pc = "idle"
  /\ result.op \notin {"get", "list"}
  /\ \E id \in GetIds :
       /\ ret' = Get(threads, id)
       /\ result' = [Result("get", "ok") EXCEPT !.io = id]
  /\ pre' = Snapshot(threads)
  /\ UNCHANGED aux
  /\ UNCHANGED <<dirs, file, tmp, tmpSynced, strays, pc, threads, arg, exc,
                 swallowed, lastUp, nops, faults>>

ListCall ==
  /\ pc = "idle"
  /\ result.op \notin {"get", "list"}
  /\ ret' = ListThreads(threads)
  /\ result' = Result("list", "ok")
  /\ pre' = Snapshot(threads)
  /\ UNCHANGED aux
  /\ UNCHANGED <<dirs, file, tmp, tmpSynced, strays, pc, threads, arg, exc,
                 swallowed, lastUp, nops, faults>>

(* --------------------------- Registry.upsert --------------------------- *)
\* "if not thread_id: raise ValueError"
UpsertAccepts(rec) == Truthy(DictGet(rec, "thread_id"))

\* (Mutant: the record is stored before thread_id is looked at.)
UpsertThreadsUnchecked(d, rec) ==
  DictSet(d, Str(DictGet(rec, "thread_id")), rec)

\* self._threads after upsert(rec) got past its first three lines, or after
\* it raised ValueError.
UpsertThreads(d, rec) ==
  IF UpsertAccepts(rec)
  THEN DictSet(d, Str(DictGet(rec, "thread_id")), rec)
  ELSE d

\* upsert(thread) up to the call of _persist.  A temporary file that an
\* earlier call left behind is counted with the strays from here on.
Upsert ==
  /\ pc = "idle"
  /\ nops < MaxOps
  /\ nops' = nops + 1
  /\ \E rec \in Records :
       /\ arg' = rec
       /\ threads' = UpsertThreads(threads, rec)
       /\ pre' = Snapshot(threads')
       /\ IF UpsertAccepts(rec)
          THEN /\ pc' = "mkdir"
               /\ result' = Result("upsert", "running")
               /\ lastUp' = DictSet(lastUp, Str(DictGet(rec, "thread_id")), rec)
          ELSE /\ pc' = "idle"
               /\ result' = Result("upsert", "ValueError")
               /\ lastUp' = lastUp
  /\ strays' = TmpCount
  /\ tmp' = NoFile
  /\ tmpSynced' = FALSE
  /\ exc' = "none"
  /\ swallowed' = {}
  /\ ret' = <<>>
  /\ UNCHANGED aux
  /\ UNCHANGED <<dirs, file, faults>>

(* --------------------------- Registry._persist ------------------------- *)
\* An exception that leaves _persist leaves upsert too.
Raise(step) ==
  /\ exc' = step
  /\ pc' = "idle"
  /\ result' = Result("upsert", "OSError")

\* self.state_file.parent.mkdir(parents=True, exist_ok=True); a failure can
\* come after the parent's parent was made.
PersistMkdir ==
  /\ pc = "mkdir"
  /\ \/ /\ dirs' = dirs \cup {"root", "state"}
        /\ pc' = "mkstemp"
        /\ UNCHANGED <<exc, result, faults>>
     \/ /\ "state" \notin dirs
        /\ faults < MaxFaults
        /\ faults' = faults + 1
        /\ dirs' \in {dirs, dirs \cup {"root"}}
        /\ Raise("mkdir")
  /\ UNCHANGED aux
  /\ UNCHANGED <<file, tmp, tmpSynced, strays, threads, arg, swallowed, ret,
                 pre, lastUp, nops>>

\* tempfile.mkstemp(dir=parent, prefix=".threads.json.", suffix=".tmp")
PersistMkstemp ==
  /\ pc = "mkstemp"
  /\ \/ /\ tmp' = FileOf(<<>>)
        /\ pc' = "write"
        /\ UNCHANGED <<exc, result, faults>>
     \/ /\ faults < MaxFaults
        /\ faults' = faults + 1
        /\ tmp' = tmp
        /\ Raise("mkstemp")
  /\ UNCHANGED aux
  /\ UNCHANGED <<dirs, file, tmpSynced, strays, threads, arg, swallowed, ret,
                 pre, lastUp, nops>>

\* (Mutant: the rename does not wait for the text to be complete.)
WriteDoneEarly(t, d) == Len(t.data) >= 1

\* json.dump has handed the whole text to the file.
WriteDone(t, d) == t.data = JsonDump(d)

\* os.fdopen and json.dump: the text reaches the temporary file a piece at a
\* time, and a failing write leaves the pieces written so far.
PersistWrite ==
  /\ pc = "write"
  /\ \/ /\ tmp' = FileOf(Append(tmp.data, JsonDump(threads)[Len(tmp.data) + 1]))
        /\ pc' = IF WriteDone(tmp', threads) THEN "fsync" ELSE "write"
        /\ UNCHANGED <<exc, faults>>
     \/ /\ faults < MaxFaults
        /\ faults' = faults + 1
        /\ tmp' = tmp
        /\ exc' = "write"
        /\ pc' = "cleanup"
  /\ UNCHANGED aux
  /\ UNCHANGED <<dirs, file, tmpSynced, strays, threads, arg, swallowed,
                 result, ret, pre, lastUp, nops>>

\* (Mutant: _persist goes from json.dump to os.replace, no flush, no fsync.)
PersistNoFsync ==
  /\ pc = "fsync"
  /\ pc' = "replace"
  /\ UNCHANGED aux
  /\ UNCHANGED <<dirs, file, tmp, tmpSynced, strays, threads, arg, exc,
                 swallowed, result, ret, pre, lastUp, nops, faults>>

\* handle.flush(); os.fsync(handle.fileno()); the with block closes handle.
PersistFsync ==
  /\ pc = "fsync"
  /\ \/ /\ tmpSynced' = TRUE
        /\ pc' = "replace"
        /\ UNCHANGED <<exc, faults>>
     \/ /\ faults < MaxFaults
        /\ faults' = faults + 1
        /\ tmpSynced' = tmpSynced
        /\ exc' = "fsync"
        /\ pc' = "cleanup"
  /\ UNCHANGED aux
  /\ UNCHANGED <<dirs, file, tmp, strays, threads, arg, swallowed, result,
                 ret, pre, lastUp, nops>>

\* os.replace(tmp_path, self.state_file): the temporary file takes the place
\* of the state file in one step.
PersistReplace ==
  /\ pc = "replace"
  /\ \/ /\ file' = tmp
        /\ tmp' = NoFile
        /\ pc' = "dirsync"
        /\ UNCHANGED <<exc, faults>>
     \/ /\ faults < MaxFaults
        /\ faults' = faults + 1
        /\ UNCHANGED <<file, tmp>>
        /\ exc' = "replace"
        /\ pc' = "cleanup"
  /\ UNCHANGED aux
  /\ UNCHANGED <<dirs, tmpSynced, strays, threads, arg, swallowed, result,
                 ret, pre, lastUp, nops>>

\* os.open(parent, O_DIRECTORY); os.fsync(dir_fd): "except OSError: pass";
\* then, in the finally clause of that try, os.close(dir_fd) when os.open
\* had answered.  An OSError of os.close is in no except clause: it leaves
\* _persist by way of the outer finally block.
PersistDirSync ==
  /\ pc = "dirsync"
  /\ pc' = "cleanup"
  /\ \E syncFails, closeFails \in BOOLEAN :
       /\ faults + (IF syncFails THEN 1 ELSE 0)
                 + (IF closeFails THEN 1 ELSE 0) <= MaxFaults
       /\ faults' = faults + (IF syncFails THEN 1 ELSE 0)
                           + (IF closeFails THEN 1 ELSE 0)
       /\ swallowed' = IF syncFails THEN swallowed \cup {"dirsync"}
                       ELSE swallowed
       /\ exc' = IF closeFails THEN "dirclose" ELSE exc
  /\ UNCHANGED aux
  /\ UNCHANGED <<dirs, file, tmp, tmpSynced, strays, threads, arg, result,
                 ret, pre, lastUp, nops>>

\* (Mutant: no finally block, the temporary file is left where it is.)
AfterRemoveNothing(t, removed) == t

\* The temporary file after "if os.path.exists(tmp_path): os.remove(tmp_path)"
\* where os.remove succeeds (removed) or raises the OSError that is ignored.
AfterRemove(t, removed) == IF t.exists /\ removed THEN NoFile ELSE t

\* (Mutant: the exception is dropped instead of re-raised.)
PersistOutcomeQuiet(e) == "ok"

\* How upsert ends once the finally block is through: the exception that was
\* propagating goes on to the caller.
PersistOutcome(e) == IF e = "none" THEN "ok" ELSE "OSError"

\* The finally block of _persist, and the return to upsert's caller.
PersistCleanup ==
  /\ pc = "cleanup"
  /\ \E removed \in BOOLEAN :
       /\ ~removed => tmp.exists /\ faults < MaxFaults
       /\ faults' = IF removed THEN faults ELSE faults + 1
       /\ tmp' = AfterRemove(tmp, removed)
       /\ swallowed' = IF removed THEN swallowed ELSE swallowed \cup {"remove"}
  /\ pc' = "idle"
  /\ result' = Result("upsert", PersistOutcome(exc))
  /\ UNCHANGED aux
  /\ UNCHANGED <<dirs, file, tmpSynced, strays, threads, arg, exc, ret, pre,
                 lastUp, nops>>

(* ------------------------------ the process ---------------------------- *)
\* The process is killed, between calls or inside one: the Registry object
\* is gone, the files stay as they are.  What is remembered of a call that
\* had returned is dropped.
Crash ==
  /\ pc # "none"
  /\ faults < MaxFaults
  /\ faults' = faults + 1
  /\ pc' = "none"
  /\ threads' = EmptyDict
  /\ result' = [Result("crash", "-") EXCEPT !.io = pc]
  /\ ret' = <<>>
  /\ lastUp' = EmptyDict
  /\ IF pc = "idle"
     THEN /\ pre' = [Snapshot(EmptyDict) EXCEPT !.threads = EmptyDict]
          /\ arg' = NoObj
          /\ exc' = "none"
          /\ swallowed' = {}
     ELSE UNCHANGED <<pre, arg, exc, swallowed>>
  /\ UNCHANGED aux
  /\ UNCHANGED <<dirs, file, tmp, tmpSynced, strays, nops>>

Next ==
  \/ Ensure
  \/ Construct
  \/ GetCall
  \/ ListCall
  \/ Upsert
  \/ PersistMkdir
  \/ PersistMkstemp
  \/ PersistWrite
  \/ PersistFsync
  \/ PersistReplace
  \/ PersistDirSync
  \/ PersistCleanup
  \/ Crash

Spec == Init /\ [][Next]_vars

(* ======================================================================= *)
(*                     two writers on one state file                       *)
(* ======================================================================= *)
\* The records the two writers upsert.
ConcRecords ==
  { [thread_id |-> "'a'", status |-> "'run'"],
    [thread_id |-> "'a'", status |-> MISSING],
    [thread_id |-> "'b'", status |-> MISSING] }

\* The state file the writers find: none, or one that holds a record.
ConcInitFiles ==
  {NoFile, FileOf(JsonDump(<<Item("b", [thread_id |-> "'b'",
                                         status |-> "'run'"])>>))}

\* The Registry object an actor calls: its own in its own process, the one
\* shared object among threads.
Reg(a) == IF cmode = "processes" THEN a ELSE 1

\* (Mutant: upsert hands _persist to the background and returns once the
\* record is stored.)
UpsertDoneAtStore(p) == p # "none"

\* upsert has returned to its caller: "self._persist()" is its last
\* statement and runs in the calling thread.
UpsertDone(p) == p = "idle"

\* A caller that serializes its upsert calls with a mutex takes it before
\* the call and gives it back when the call has returned.  The Registry has
\* no lock of its own: without the callers' mutex every call may begin.
MayEnter(a) ==
  cmode = "locked" => \A b \in Actors \ {a} : UpsertDone(cpc[b])

\* (Mutant: a fixed temporary path beside the state file, not mkstemp.)
MkstempFixedName(a, tmps) == {1}

\* tempfile.mkstemp: a name that no file in the directory has (the file is
\* made with O_EXCL).  The eight random characters of the name are taken
\* not to repeat a name that a call still in progress was given.
MkstempName(a, tmps) ==
  {n \in Actors : ~tmps[n].exists /\ \A b \in Actors : cname[b] # n}

InitConc ==
  /\ AliasOff
  /\ cmode \in {"processes", "threads", "locked"}
  /\ file \in ConcInitFiles
  /\ cmem = [r \in Actors |->
               IF cmode # "processes" /\ r = 1 THEN Load(file, "ok").dict
               ELSE EmptyDict]
  /\ cpc = [a \in Actors |-> IF cmode = "processes" THEN "none" ELSE "idle"]
  /\ csnap = [a \in Actors |-> EmptyDict]
  /\ cname = [a \in Actors |-> 0]
  /\ cpos = [a \in Actors |-> 0]
  /\ ctmps = [n \in Actors |-> NoFile]
  /\ cres = [a \in Actors |-> "none"]
  /\ cwriter = 0
  /\ cwritten = EmptyDict
  /\ nops = 0
  /\ faults = 0
  /\ dirs = AllDirs
  /\ tmp = NoFile
  /\ tmpSynced = FALSE
  /\ strays = 0
  /\ pc = "none"
  /\ threads = EmptyDict
  /\ arg = NoObj
  /\ exc = "none"
  /\ swallowed = {}
  /\ result = Result("none", "-")
  /\ ret = <<>>
  /\ pre = [file |-> NoFile, threads |-> EmptyDict, next |-> EmptyDict,
            dirs |-> AllDirs, tmps |-> 0]
  /\ lastUp = EmptyDict

\* A process makes its Registry: __init__ loads the state file, this once.
ProcConstruct(a) ==
  /\ cmode = "processes"
  /\ cpc[a] = "none"
  /\ Load(file, "ok").out = "ok"
  /\ cmem' = [cmem EXCEPT ![a] = Load(file, "ok").dict]
  /\ cpc' = [cpc EXCEPT ![a] = "idle"]
  /\ UNCHANGED <<file, nops, faults, svars, hvars, cmode, csnap, cname, cpos, ctmps,
                 cres, cwriter, cwritten>>

\* upsert(rec) up to mkstemp: the record is stored in self._threads and
\* _persist finds the parent directory in place.
ConcUpsert(a) ==
  /\ cpc[a] = "idle"
  /\ nops < MaxOps
  /\ MayEnter(a)
  /\ nops' = nops + 1
  /\ \E rec \in ConcRecords :
       cmem' = [cmem EXCEPT ![Reg(a)] = UpsertThreads(@, rec)]
  /\ cpc' = [cpc EXCEPT ![a] = "mkstemp"]
  /\ cres' = [cres EXCEPT ![a] = "running"]
  /\ UNCHANGED <<file, faults, svars, hvars, cmode, csnap, cname, cpos, ctmps,
                 cwriter, cwritten>>

\* tempfile.mkstemp(dir=parent, ...) and os.fdopen(fd, "w")
ConcMkstemp(a) ==
  /\ cpc[a] = "mkstemp"
  /\ \E n \in MkstempName(a, ctmps) :
       /\ cname' = [cname EXCEPT ![a] = n]
       /\ ctmps' = [ctmps EXCEPT ![n] = FileOf(<<>>)]
  /\ cpos' = [cpos EXCEPT ![a] = 0]
  /\ cpc' = [cpc EXCEPT ![a] = "dump"]
  /\ UNCHANGED <<file, nops, faults, svars, hvars, cmode, cmem, csnap, cres,
                 cwriter, cwritten>>

\* json.dump(self._threads, ..., sort_keys=True) begins: the encoder takes
\* sorted(self._threads.items()) in one go and writes from that list.  The
\* records are the Registry's own copies, which nothing changes in place.
ConcDump(a) ==
  /\ cpc[a] = "dump"
  /\ csnap' = [csnap EXCEPT ![a] = cmem[Reg(a)]]
  /\ cpc' = [cpc EXCEPT ![a] = "write"]
  /\ UNCHANGED <<file, nops, faults, svars, hvars, cmode, cmem, cname, cpos, ctmps,
                 cres, cwriter, cwritten>>

\* The text goes to the temporary file a piece at a time; flush, fsync and
\* the close of the handle follow the last piece.  A failing write ends the
\* call with OSError, by way of the finally block.  What is written through
\* the handle of a file that was removed meanwhile is in no file.
ConcWrite(a) ==
  /\ cpc[a] = "write"
  /\ \/ /\ ctmps' = [ctmps EXCEPT ![cname[a]] =
                       IF @.exists
                       THEN FileOf(Append(@.data,
                                          JsonDump(csnap[a])[cpos[a] + 1]))
                       ELSE @]
        /\ cpos' = [cpos EXCEPT ![a] = @ + 1]
        /\ cpc' = [cpc EXCEPT ![a] =
                     IF cpos'[a] = Len(JsonDump(csnap[a])) THEN "replace"
                     ELSE "write"]
        /\ UNCHANGED <<cres, faults>>
     \/ /\ faults < MaxFaults
        /\ faults' = faults + 1
        /\ cres' = [cres EXCEPT ![a] = "OSError"]
        /\ cpc' = [cpc EXCEPT ![a] = "cleanup"]
        /\ UNCHANGED <<ctmps, cpos>>
  /\ UNCHANGED <<file, nops, svars, hvars, cmode, cmem, csnap, cname, cwriter,
                 cwritten>>

\* os.replace(tmp_path, self.state_file), and the directory sync after it;
\* os.replace raises FileNotFoundError when tmp_path is not there.
ConcReplace(a) ==
  /\ cpc[a] = "replace"
  /\ IF ctmps[cname[a]].exists
     THEN /\ file' = ctmps[cname[a]]
          /\ ctmps' = [ctmps EXCEPT ![cname[a]] = NoFile]
          /\ cwriter' = a
          /\ cwritten' = cmem[Reg(a)]
          /\ cres' = cres
     ELSE /\ cres' = [cres EXCEPT ![a] = "OSError"]
          /\ UNCHANGED <<file, ctmps, cwriter, cwritten>>
  /\ cpc' = [cpc EXCEPT ![a] = "cleanup"]
  /\ UNCHANGED <<nops, faults, svars, hvars, cmode, cmem, csnap, cname, cpos>>

\* The finally block, "if os.path.exists(tmp_path): os.remove(tmp_path)",
\* and the return of upsert to its caller.
ConcCleanup(a) ==
  /\ cpc[a] = "cleanup"
  /\ ctmps' = [ctmps EXCEPT ![cname[a]] = AfterRemove(@, TRUE)]
  /\ cres' = [cres EXCEPT ![a] = IF @ = "running" THEN "ok" ELSE @]
  /\ cpc' = [cpc EXCEPT ![a] = "idle"]
  /\ csnap' = [csnap EXCEPT ![a] = EmptyDict]
  /\ cname' = [cname EXCEPT ![a] = 0]
  /\ cpos' = [cpos EXCEPT ![a] = 0]
  /\ UNCHANGED <<file, nops, faults, svars, hvars, cmode, cmem, cwriter, cwritten>>

NextConc ==
  \/ \E a \in Actors : ProcConstruct(a)
  \/ \E a \in Actors : ConcUpsert(a)
  \/ \E a \in Actors : ConcMkstemp(a)
  \/ \E a \in Actors : ConcDump(a)
  \/ \E a \in Actors : ConcWrite(a)
  \/ \E a \in Actors : ConcReplace(a)
  \/ \E a \in Actors : ConcCleanup(a)

SpecConc == InitConc /\ [][NextConc]_vars

(* ======================================================================= *)
(*                 records as objects: copies and aliases                  *)
(* ======================================================================= *)
\* A record is a dict object whose "metadata"/"notes" field refers to a list
\* object, as in the tests' sample_thread.  An object of the heap is a dict
\* (thread_id, status, and ref, the address of its list) or a list (items).
DictObj(tid, status, ref) ==
  [kind |-> "dict", thread_id |-> tid, status |-> status, ref |-> ref,
   items |-> <<>>]
ListObj(items) ==
  [kind |-> "list", thread_id |-> MISSING, status |-> MISSING, ref |-> 0,
   items |-> items]

\* The value of the record at address a, nested list included: what ==
\* compares in Python.
Val(h, a) ==
  [thread_id |-> h[a].thread_id, status |-> h[a].status,
   notes |-> h[h[a].ref].items]

\* The addresses of the objects a record is made of.
Reach(h, a) == {a, h[a].ref}
RecordObjs(h) == {a \in 1..Len(h) : h[a].kind = "dict"}

\* (Mutant: copy.copy, a new dict whose fields refer to the same objects.)
ShallowCopy(h, a) == h \o <<h[a], h[h[a].ref]>>

\* copy.deepcopy(h[a]): a new dict at Len(h) + 1 and, for its nested list, a
\* new list at Len(h) + 2.
DeepCopy(h, a) ==
  h \o <<[h[a] EXCEPT !.ref = Len(h) + 2], h[h[a].ref]>>

\* What is noted of an object when it is made: its origin and its value.
Made(h, a, origin) == [from |-> origin, val |-> Val(h, a)]
NoNote == [from |-> "nested",
           val |-> [thread_id |-> MISSING, status |-> MISSING,
                    notes |-> <<>>]]

\* The text model keeps two fields of a record: what _persist writes of the
\* records of self._threads.
HeapDict(h, d) ==
  [i \in 1..Len(d) |->
     Item(d[i].k, [thread_id |-> h[d[i].v].thread_id,
                   status |-> h[d[i].v].status])]

\* A Registry that has loaded two records: json.loads made their objects,
\* which nothing else refers to.
LoadedHeap ==
  <<DictObj("'a'", "'run'", 2), ListObj(<<"alpha">>),
    DictObj("'b'", "'run'", 4), ListObj(<<>>)>>

InitAlias ==
  /\ heap = LoadedHeap
  /\ hthreads = <<Item("a", 1), Item("b", 3)>>
  /\ held = {}
  /\ hexp = [a \in 1..Len(heap) |->
              IF heap[a].kind = "dict" THEN Made(heap, a, "load") ELSE NoNote]
  /\ ConcOff
  /\ file = FileOf(JsonDump(HeapDict(heap, hthreads)))
  /\ nops = 0
  /\ faults = 0
  /\ dirs = AllDirs
  /\ tmp = NoFile
  /\ tmpSynced = FALSE
  /\ strays = 0
  /\ pc = "none"
  /\ threads = EmptyDict
  /\ arg = NoObj
  /\ exc = "none"
  /\ swallowed = {}
  /\ result = Result("none", "-")
  /\ ret = <<>>
  /\ pre = [file |-> NoFile, threads |-> EmptyDict, next |-> EmptyDict,
            dirs |-> AllDirs, tmps |-> 0]
  /\ lastUp = EmptyDict

\* The record objects made since the Registry was constructed.
Made_n(h) == Cardinality(RecordObjs(h)) - Cardinality(RecordObjs(LoadedHeap))

\* The caller makes a record: a dict and the list nested in it.
CallerNew ==
  /\ Made_n(heap) < MaxObjects
  /\ heap' = heap \o <<DictObj("'a'", "'run'", Len(heap) + 2),
                       ListObj(<<"alpha">>)>>
  /\ held' = held \cup {Len(heap) + 1}
  /\ hexp' = hexp \o <<Made(heap', Len(heap) + 1, "caller"), NoNote>>
  /\ UNCHANGED <<hthreads, file, nops, faults, svars, cvars>>

\* The caller changes an object it has: a field of the dict, or the list
\* nested in it ('rec["status"] = None', 'rec["metadata"]["notes"].append').
CallerMutate ==
  /\ \E a \in held :
       /\ \/ /\ heap[a].status # "None"
             /\ heap' = [heap EXCEPT ![a].status = "None"]
          \/ /\ Len(heap[heap[a].ref].items) < MaxNotes
             /\ heap' = [heap EXCEPT ![heap[a].ref].items = Append(@, "beta")]
       /\ hexp' = [hexp EXCEPT ![a].val = Val(heap', a)]
  /\ UNCHANGED <<hthreads, held, file, nops, faults, svars, cvars>>

\* upsert(thread) with an object the caller has, one whose thread_id is
\* accepted: the deep copy is stored and the map is persisted.
AliasUpsert ==
  /\ Made_n(heap) < MaxObjects
  /\ \E a \in held :
       /\ UpsertAccepts(heap[a])
       /\ heap' = DeepCopy(heap, a)
       /\ hthreads' = DictSet(hthreads, Str(DictGet(heap[a], "thread_id")),
                              Len(heap) + 1)
       /\ hexp' = hexp \o <<Made(heap', Len(heap) + 1, "upsert"), NoNote>>
       /\ file' = FileOf(JsonDump(HeapDict(heap', hthreads')))
  /\ UNCHANGED <<held, nops, faults, svars, cvars>>

\* get(thread_id) where the key is there: the caller gets a deep copy.
AliasGet ==
  /\ Made_n(heap) < MaxObjects
  /\ \E id \in GetIds :
       /\ Str(id) \in DictKeys(hthreads)
       /\ heap' = DeepCopy(heap, DictValue(hthreads, Str(id)))
  /\ held' = held \cup {Len(heap) + 1}
  /\ hexp' = hexp \o <<Made(heap', Len(heap) + 1, "get"), NoNote>>
  /\ UNCHANGED <<hthreads, file, nops, faults, svars, cvars>>

\* [copy.deepcopy(thread) for thread in self._threads.values()]
RECURSIVE CopyAll(_, _, _)
CopyAll(h, d, i) ==
  IF i > Len(d) THEN h ELSE CopyAll(DeepCopy(h, d[i].v), d, i + 1)

\* list_threads(): the caller gets a deep copy of every value.
AliasList ==
  /\ hthreads # EmptyDict
  /\ Made_n(heap) + Len(hthreads) <= MaxObjects
  /\ heap' = CopyAll(heap, hthreads, 1)
  /\ held' = held \cup {Len(heap) + 2 * i - 1 : i \in 1..Len(hthreads)}
  /\ hexp' = hexp \o
       [j \in 1..(2 * Len(hthreads)) |->
          IF j % 2 = 1 THEN Made(heap', Len(heap) + j, "list") ELSE NoNote]
  /\ UNCHANGED <<hthreads, file, nops, faults, svars, cvars>>

NextAlias ==
  \/ CallerNew
  \/ CallerMutate
  \/ AliasUpsert
  \/ AliasGet
  \/ AliasList

SpecAlias == InitAlias /\ [][NextAlias]_vars

(* ======================================================================= *)
(*                                properties                               *)
(* ======================================================================= *)
\* The items of a dict, without their order.
ItemSet(d) == {d[i] : i \in 1..Len(d)}
\* A text that is one complete dump of some dict.
IsSnapshotText(s) == IsObjectText(s) /\ JsonDump(JsonLoads(s).dict) = s
\* A text of blanks only (zero bytes included).
IsBlankText(s) == \A i \in 1..Len(s) : s[i] = WS
\* A text without its leading and trailing blanks.
Trimmed(s) ==
  IF IsBlankText(s) THEN <<>>
  ELSE SubSeq(s, CHOOSE i \in 1..Len(s) : s[i] # WS /\ \A j \in 1..(i - 1) : s[j] = WS,
                 CHOOSE i \in 1..Len(s) : s[i] # WS /\ \A j \in (i + 1)..Len(s) : s[j] = WS)
\* A text that is JSON, but not a JSON object.
IsNonMappingText(s) == Trimmed(s) \in {<<LSQ, RSQ>>, <<NUM>>, <<NULL>>}
\* A text that cannot be decoded, or is not JSON.
IsCorruptText(s) ==
  \/ \E i \in 1..Len(s) : s[i] = BADBYTE
  \/ ~IsBlankText(s) /\ ~IsNonMappingText(s) /\ ~IsObjectText(Trimmed(s))
\* The steps of _persist up to the rename.
StepsToRename == {"mkdir", "mkstemp", "write", "fsync", "replace"}
UpsertReturned == pc = "idle" /\ result.op = "upsert"

\* C1: in every state, crash and failure points of _persist included, the
\* state file is absent, or what it was when the call began, or the complete
\* dump of the in-memory map; whatever replaced the file the call found is a
\* complete dump, never a part of one.
C1_DestinationIsOldOrNew ==
  /\ \/ ~file.exists
     \/ file = pre.file
     \/ file = FileOf(JsonDump(pre.next))
  /\ file.exists /\ file # pre.file => IsSnapshotText(file.data)

\* C1 witness: the process was killed while the second dump was half written;
\* the state file still is the complete first dump.
C1_Witness ==
  /\ result.op = "crash"
  /\ tmp.exists
  /\ tmp.data # <<>>
  /\ tmp.data # JsonDump(pre.next)
  /\ file.exists
  /\ IsSnapshotText(file.data)
  /\ file = pre.file
  /\ file # FileOf(JsonDump(pre.next))

C3_RoundTrip ==
  UpsertReturned /\ result.out = "ok" =>
    /\ Load(file, "ok").out = "ok"
    /\ Get(Load(file, "ok").dict, arg.thread_id) = <<arg>>
    /\ \A k \in DictKeys(lastUp) :
         /\ k \in DictKeys(Load(file, "ok").dict)
         /\ DictValue(Load(file, "ok").dict, k) = DictValue(lastUp, k)

\* C3 witness: two successful upserts of different keys, one of them an int.
C3_Witness ==
  /\ UpsertReturned
  /\ result.out = "ok"
  /\ DictKeys(lastUp) = {"7", "a"}
  /\ arg.thread_id = "7"

\* C4: when a step of _persist up to the rename fails, upsert ends with that
\* error, get(K) on the same Registry returns the new record, and the state
\* file is what it was before the call.
C4_FailedPersistKeepsMemory ==
  UpsertReturned /\ exc \in StepsToRename =>
    /\ result.out = "OSError"
    /\ Get(threads, arg.thread_id) = <<arg>>
    /\ file = pre.file

\* C4 witness: the rename failed; the record is in memory, not in the file.
C4_Witness ==
  /\ UpsertReturned
  /\ exc = "replace"
  /\ file.exists
  /\ Get(threads, arg.thread_id) = <<arg>>
  /\ Get(pre.threads, arg.thread_id) # <<arg>>
  /\ IsSnapshotText(file.data)
  /\ Get(JsonLoads(file.data).dict, arg.thread_id) # <<arg>>

\* C5: an upsert that ends with ValueError has changed nothing: not the map
\* (so no get or list_threads result), not the state file, and it has made
\* no directory and no temporary file.
C5_RejectedUpsertChangesNothing ==
  UpsertReturned /\ result.out = "ValueError" =>
    /\ threads = pre.threads
    /\ \A id \in PyValues : Get(threads, id) = Get(pre.threads, id)
    /\ ListThreads(threads) = ListThreads(pre.threads)
    /\ file = pre.file
    /\ dirs = pre.dirs
    /\ ~tmp.exists
    /\ TmpCount = pre.tmps

\* C5 witness: a record without thread_id was refused by a Registry that
\* holds a record.
C5_Witness ==
  /\ UpsertReturned
  /\ result.out = "ValueError"
  /\ arg.thread_id = MISSING
  /\ threads # EmptyDict
  /\ file.exists

\* C6 as claimed: upsert refuses a record exactly when thread_id is missing
\* or its str() is empty; any other thread_id (0 and False too) is taken and
\* stored under its str().
C6_AcceptsIffStrNonEmpty ==
  UpsertReturned =>
    /\ result.out = "ValueError" <=>
         (arg.thread_id = MISSING \/ Str(arg.thread_id) = "")
    /\ result.out # "ValueError" =>
         Get(threads, arg.thread_id) = <<arg>>

\* C7 as claimed: constructing over a state file that is there but cannot be
\* opened, cannot be decoded or is not JSON ends with RegistryLoadError, gives
\* no Registry, and leaves the file as it was.
C7_CorruptionIsLoadError ==
  /\ result.op = "construct"
  /\ pre.file.exists
  /\ \/ result.io \in {"StatError", "OSError"}
     \/ result.io = "ok" /\ IsCorruptText(pre.file.data)
  => /\ result.out = "RegistryLoadError"
     /\ pc = "none"
     /\ file = pre.file

\* C8: constructing over a path with no file, or over a readable file of zero
\* bytes or of blanks only, gives an empty Registry without error and makes
\* no file.
C8_BlankIsEmpty ==
  /\ result.op = "construct"
  /\ result.io \in {"absent", "ok"}
  /\ ~pre.file.exists \/ IsBlankText(pre.file.data)
  => /\ result.out = "ok"
     /\ pc = "idle"
     /\ ListThreads(threads) = <<>>
     /\ \A id \in PyValues : Get(threads, id) = <<>>
     /\ file = pre.file
     /\ dirs = pre.dirs
     /\ TmpCount = pre.tmps

\* C8 witness: a Registry was constructed over a file of blanks.
C8_Witness ==
  /\ result.op = "construct"
  /\ result.out = "ok"
  /\ pre.file = FileOf(<<WS>>)
  /\ pc = "idle"

\* What C9 and its amendment share: over JSON that is not an object the
\* Registry starts empty without error, and construction, get and
\* list_threads leave the file as it was.
C9_NonMappingStartsEmpty ==
  /\ /\ result.op = "construct"
     /\ result.io = "ok"
     /\ IsNonMappingText(pre.file.data)
     => /\ result.out = "ok"
        /\ pc = "idle"
        /\ threads = EmptyDict
        /\ file = pre.file
  /\ result.op \in {"get", "list"} => file = pre.file /\ threads = pre.threads

\* C9 as claimed: ... and the first successful upsert replaces that file by
\* an object that holds the upserted record and nothing else.
C9_Original ==
  /\ C9_NonMappingStartsEmpty
  /\ /\ UpsertReturned
     /\ result.out = "ok"
     /\ pre.file.exists
     /\ IsNonMappingText(pre.file.data)
     => /\ IsObjectText(file.data)
        /\ ItemSet(JsonLoads(file.data).dict) =
             {Item(Str(arg.thread_id), arg)}

\* C9 (amended): ... and the first successful upsert replaces that file by
\* an object that holds exactly the records upserted since construction: the
\* upserted record, and the record of every earlier upsert that failed while
\* persisting.
C9_FirstUpsertReplacesNonMapping ==
  /\ C9_NonMappingStartsEmpty
  /\ /\ UpsertReturned
     /\ result.out = "ok"
     /\ pre.file.exists
     /\ IsNonMappingText(pre.file.data)
     => /\ IsObjectText(file.data)
        /\ ItemSet(JsonLoads(file.data).dict) = ItemSet(lastUp)
        /\ Item(Str(arg.thread_id), arg) \in ItemSet(lastUp)

\* C9 witness: the first upsert over a file that held a JSON list succeeded.
C9_Witness ==
  /\ UpsertReturned
  /\ result.out = "ok"
  /\ pre.file = FileOf(<<LSQ, RSQ>>)
  /\ nops = 1
  /\ file = FileOf(<<LB, Member("a", EncodeRecord(arg)), RB>>)

\* C10 as claimed: every record a Registry holds under key K has a thread_id
\* whose str() is K.
C10_KeyIdentity ==
  pc # "none" =>
    \A i \in 1..Len(threads) :
      /\ threads[i].v.thread_id # MISSING
      /\ Str(threads[i].v.thread_id) = threads[i].k

\* The key of the record given to upsert.
ArgKey == Str(arg.thread_id)
\* upsert got past its validation (it is persisting, or it has returned).
UpsertStored == result.op = "upsert" /\ result.out # "ValueError"

\* C12: a valid upsert(R) makes the map the map it was with K mapped to R:
\* the record under K is R with nothing of the record it replaces, every
\* other key keeps its record and no key goes away; after a successful
\* persist a Registry constructed over the file has the same map.
C12_OverwriteSemantics ==
  UpsertStored =>
    /\ DictKeys(threads) = DictKeys(pre.threads) \cup {ArgKey}
    /\ \A i \in 1..Len(threads) :
         threads[i].v = IF threads[i].k = ArgKey THEN arg
                        ELSE DictValue(pre.threads, threads[i].k)
    /\ UpsertReturned /\ result.out = "ok" =>
         /\ Load(file, "ok").out = "ok"
         /\ ItemSet(Load(file, "ok").dict) = ItemSet(threads)

\* C12 witness: a record with a status was replaced by one without, next to
\* a record under another key, and the upsert succeeded.
C12_Witness ==
  /\ UpsertReturned
  /\ result.out = "ok"
  /\ ArgKey \in DictKeys(pre.threads)
  /\ DictValue(pre.threads, ArgKey).status = "'run'"
  /\ arg.status = MISSING
  /\ Len(threads) = 2
  /\ Get(Load(file, "ok").dict, arg.thread_id) = <<arg>>

\* C13: get and list_threads change neither the map nor the files; get(id)
\* returns the record under str(id), or None without error when there is
\* none; list_threads returns one copy for every key.
C13_ReadsHaveNoEffect ==
  result.op \in {"get", "list"} =>
    /\ result.out = "ok"
    /\ threads = pre.threads
    /\ file = pre.file
    /\ dirs = pre.dirs
    /\ TmpCount = pre.tmps
    /\ result.op = "get" =>
         /\ Len(ret) <= 1
         /\ ret = <<>> <=> \A i \in 1..Len(threads) : threads[i].k # Str(result.io)
         /\ \A i \in 1..Len(threads) :
              threads[i].k = Str(result.io) => ret = <<threads[i].v>>
    /\ result.op = "list" =>
         /\ Len(ret) = Cardinality(DictKeys(threads))
         /\ \A r \in Records :
              Cardinality({i \in 1..Len(ret) : ret[i] = r}) =
              Cardinality({k \in DictKeys(threads) : DictValue(threads, k) = r})

\* C13 witness: get('a') found the record stored under "a" in a Registry
\* that holds two records.
C13_Witness ==
  /\ result.op = "get"
  /\ result.io = "'a'"
  /\ Len(threads) = 2
  /\ Len(ret) = 1
  /\ ret[1].thread_id = "'a'"

(* ------------------------------------------------------------------------ *)
\* C16: Paths.ensure is idempotent.  From any directory state, after ensure
\* returns the three directories root, root/state and root/logs exist; a
\* call made when all three exist raises no error and changes nothing; and
\* no call of ensure, successful or failed, creates, modifies or removes
\* the state file.
C16_EnsureIdempotent ==
  result.op = "ensure" =>
    /\ file = pre.file /\ TmpCount = pre.tmps
    /\ pre.dirs \subseteq dirs
    /\ result.out = "ok" =>
         /\ dirs = AllDirs
         /\ EnsureDirs(dirs, 3) = dirs
    /\ pre.dirs = AllDirs => result.out = "ok" /\ dirs = pre.dirs

\* ensure has made root/logs beside a state file that was already there.
C16_Witness ==
  /\ result.op = "ensure" /\ result.out = "ok"
  /\ pre.dirs = {"root", "state"} /\ dirs = AllDirs
  /\ file.exists /\ file = pre.file

(* ------------------------------------------------------------------------ *)
\* What a fresh process would read from a state file.
OnDisk(f) == Load(f, "ok").dict

\* C17: every upsert persists the entire in-memory map.  For a single
\* writer, when an upsert has returned successfully the state file holds
\* exactly the records of the in-memory map, every key with its record: the
\* record just stored, the records loaded at construction, and the records
\* whose own upsert failed while persisting.
C17_PersistsWholeMap ==
  UpsertReturned /\ result.out = "ok" =>
    /\ file.exists
    /\ DictKeys(OnDisk(file)) = DictKeys(threads)
    /\ \A k \in DictKeys(threads) :
         DictValue(OnDisk(file), k) = DictValue(threads, k)
    /\ \A k \in DictKeys(pre.threads) : k \in DictKeys(OnDisk(file))

\* The upsert of one record failed while persisting (the record was in
\* memory and not in the file when the next call began); the upsert of
\* another record then succeeded, and the file holds both.
C17_Witness ==
  /\ UpsertReturned /\ result.out = "ok" /\ nops = 2
  /\ \E k \in DictKeys(pre.threads) :
       /\ k # ArgKey
       /\ k \notin DictKeys(OnDisk(pre.file))
       /\ k \in DictKeys(OnDisk(file))
       /\ DictValue(OnDisk(file), k) = DictValue(pre.threads, k)
  /\ ArgKey \in DictKeys(OnDisk(file))

(* ------------------------------------------------------------------------ *)
\* One step of a process that holds or is making a Registry, in the order
\* _persist prescribes.
OrderedStep ==
  \* the temporary file appears at mkstemp, in the destination's directory
  /\ tmp'.exists /\ ~tmp.exists =>
       /\ pc = "mkstemp"
       /\ Parent(tmp_path) = Parent(state_file)
       /\ \A i \in 1..Len(Parent(tmp_path)) : Parent(tmp_path)[i] \in dirs
       /\ tmp'.data = <<>> /\ ~tmpSynced'
  \* the rename comes when the whole text is written, flushed and synced
  /\ pc = "replace" =>
       /\ tmp.exists /\ tmp.data = JsonDump(threads) /\ tmpSynced
  /\ tmpSynced' /\ ~tmpSynced => pc = "fsync" /\ tmp.data = JsonDump(threads)
  \* within upsert nothing but the rename changes the destination
  /\ pc # "none" /\ file' # file =>
       /\ pc = "replace" /\ pc' = "dirsync"
       /\ file' = tmp /\ ~tmp'.exists
  \* the directory is synced after the rename, and only then
  /\ pc' = "dirsync" => pc = "replace" /\ file' = tmp /\ ~tmp'.exists
  /\ pc = "dirsync" => file' = file /\ file.data = JsonDump(threads)

\* C18: ordering of the persist protocol.  In every execution of upsert the
\* temporary file is created in the directory of the destination; the whole
\* serialization is written to it, flushed, fsynced and the handle closed
\* before the rename over the destination; the rename is the only step that
\* changes the destination; the directory fsync comes only after the rename.
C18_PersistOrdering == [][OrderedStep]_vars

\* The rename has just put a two-record snapshot in the place of an older
\* state file, and the directory sync is the step to come.
C18_Witness ==
  /\ pc = "dirsync" /\ tmpSynced /\ ~tmp.exists
  /\ pre.file.exists /\ file # pre.file
  /\ Len(threads) = 2 /\ file.data = JsonDump(threads)

(* ------------------------------------------------------------------------ *)
\* C19: failure of the directory sync after the rename is not fatal.  When
\* opening or fsyncing the directory failed after the rename succeeded,
\* upsert returns successfully, no error reaches the caller, and the
\* destination holds the new complete snapshot.  An upsert that reports an
\* error (ValueError or OSError) has not renamed: the destination is the
\* file it was when the call began.
\* (Not so in the code: the OSError of os.close(dir_fd) is raised after the
\* rename, with or without a failed fsync before it.)
C19_DirSyncFailureNotFatal ==
  UpsertReturned =>
    /\ "dirsync" \in swallowed =>
         /\ result.out = "ok" /\ exc = "none"
         /\ file.exists
         /\ ItemSet(OnDisk(file)) = ItemSet(threads)
         /\ arg \in {OnDisk(file)[i].v : i \in 1..Len(OnDisk(file))}
    /\ result.out # "ok" => file = pre.file

(* ------------------------------------------------------------------------ *)
\* The keys of a text's members, in the order they are written.
IsMember(tok) == tok.t = "kv"
FileKeys(s) == [i \in 1..Len(SelectSeq(s, IsMember)) |->
                  SelectSeq(s, IsMember)[i].k]
KeyIndex(k) == CHOOSE i \in 1..Len(KeyOrder) : KeyOrder[i] = k

\* The dicts that hold the items of d, in every order of insertion.
Reorderings(d) ==
  {[i \in 1..Len(d) |-> d[p[i]]] :
     p \in {q \in [1..Len(d) -> 1..Len(d)] :
              \A i, j \in 1..Len(d) : q[i] = q[j] => i = j}}

\* C20: persisted output is deterministic and sorted by key.  When an
\* upsert has returned successfully, the keys in the state file are in
\* ascending order, each once, and a registry holding the same records in
\* any other order of insertion writes the very same text.
C20_SortedDeterministic ==
  UpsertReturned /\ result.out = "ok" =>
    /\ \A i, j \in 1..Len(FileKeys(file.data)) :
         i < j => KeyIndex(FileKeys(file.data)[i])
                    < KeyIndex(FileKeys(file.data)[j])
    /\ Len(FileKeys(file.data)) = Len(threads)
    /\ \A d \in Reorderings(threads) : FileOf(JsonDump(d)) = file

\* Key "a" was stored before key "7" and the file has "7" before "a".
C20_Witness ==
  /\ UpsertReturned /\ result.out = "ok"
  /\ Len(threads) = 2 /\ threads[1].k = "a" /\ threads[2].k = "7"
  /\ FileKeys(file.data) = <<"7", "a">>

(* ------------------------------------------------------------------------ *)
AllReturned == \A a \in Actors : cpc[a] = "idle"

\* C14: two Registry instances, in two processes, on one state file.  The
\* file is at every moment the file the processes found or the complete
\* snapshot of one instance's map, the instance whose rename came last.
\* When both have finished and that instance's last upsert succeeded, the
\* file holds that instance's map and nothing else: no merge, a record that
\* only the other instance knows is not in the file.
C14_LastRenameWins ==
  cmode = "processes" =>
    /\ cwriter = 0 => file \in ConcInitFiles
    /\ cwriter # 0 => file = FileOf(JsonDump(cwritten))
    /\ AllReturned /\ cwriter # 0 /\ cres[cwriter] = "ok" =>
         /\ ItemSet(OnDisk(file)) = ItemSet(cmem[cwriter])
         /\ \A b \in Actors \ {cwriter} :
              \A k \in DictKeys(cmem[b]) \ DictKeys(cmem[cwriter]) :
                k \notin DictKeys(OnDisk(file))

\* Both processes upserted with success, the first renamed last, and the
\* record of the second is in the second's memory and not in the file.
C14_Witness ==
  /\ cmode = "processes" /\ AllReturned
  /\ cres[1] = "ok" /\ cres[2] = "ok" /\ cwriter = 1
  /\ \E k \in DictKeys(cmem[2]) :
       k \notin DictKeys(cmem[1]) /\ k \notin DictKeys(OnDisk(file))
  /\ ItemSet(OnDisk(file)) = ItemSet(cmem[1])

(* ------------------------------------------------------------------------ *)
\* C15: the Registry does not serialize concurrent access.  Two threads
\* that call upsert on one shared Registry without a lock can both return
\* successfully and leave a record in the in-memory map that is not in the
\* state file (the witness).  When the callers serialize their upsert calls
\* with a mutex, then after calls that returned successfully the state file
\* holds exactly the in-memory map (the invariant).
C15_MutexKeepsFileInStep ==
  /\ cmode = "locked"
  /\ AllReturned
  /\ \A a \in Actors : cres[a] # "OSError"
  /\ \E a \in Actors : cres[a] = "ok"
  => /\ file.exists
     /\ ItemSet(OnDisk(file)) = ItemSet(cmem[1])

\* No lock: both threads returned successfully, and a record of the shared
\* map is missing from the state file.
C15_Witness ==
  /\ cmode = "threads" /\ AllReturned
  /\ cres[1] = "ok" /\ cres[2] = "ok"
  /\ \E k \in DictKeys(cmem[1]) : k \notin DictKeys(OnDisk(file))

(* ------------------------------------------------------------------------ *)
\* The record objects of self._threads.
Internal == {hthreads[i].v : i \in 1..Len(hthreads)}

\* C11: isolation.  Whatever the caller does to a record that get returned,
\* to an element that list_threads returned, or to the record it passed to
\* upsert, in the dict or in the list nested in it: every record of the
\* Registry has the value it was stored with, so a later get returns that
\* value; every copy the caller was given has the value the caller gave it
\* through that copy; and no object of a Registry record is an object of a
\* record the caller has, nor do two of the caller's records share one.
C11_Isolation ==
  /\ \A a \in Internal : Val(heap, a) = hexp[a].val
  /\ \A a \in held : Val(heap, a) = hexp[a].val
  /\ \A a \in Internal \cup held : \A b \in held :
       a # b => Reach(heap, a) \cap Reach(heap, b) = {}

\* The caller changed, in the dict and in the nested list, the record it
\* had passed to upsert and a record that get returned after that; the
\* Registry's record is as it was stored.
C11_Witness ==
  \E g, c \in held :
    /\ hexp[g].from = "get" /\ hexp[c].from = "caller"
    /\ heap[g].thread_id = "'a'"
    /\ hexp[DictValue(hthreads, "a")].from = "upsert"
    /\ c < DictValue(hthreads, "a") /\ DictValue(hthreads, "a") < g
    /\ Val(heap, g) =
         [thread_id |-> "'a'", status |-> "None", notes |-> <<"alpha", "beta">>]
    /\ Val(heap, c) = Val(heap, g)
    /\ Val(heap, DictValue(hthreads, "a")) =
         [thread_id |-> "'a'", status |-> "'run'", notes |-> <<"alpha">>]

====
